---- MODULE Spec2Model ----
(***************************************************************************)
(* Structural correlation matrices from regional measures.                 *)
(*                                                                         *)
(* A model of scona/make_corr_matrices.py (get_non_numeric_cols,           *)
(* split_groups, create_residuals_df, create_corrmat,                      *)
(* corrmat_from_regionalmeasures, save_mat), of the older                  *)
(* BrainNetworksInPython/scripts/make_corr_matrices.py and of the          *)
(* command-line wrapper that chains the older functions and saves.         *)
(*                                                                         *)
(* A DataFrame is a record                                                 *)
(*   columns : the column labels, in order (labels may repeat)             *)
(*   index   : the row labels, in order                                    *)
(*   dtype   : column label -> "num" | "obj"                               *)
(*   data    : column label -> (row label -> cell)                         *)
(* A cell is a record [k, c, r, x]: k = "raw" is the value read for        *)
(* column c, row r; k = "lab" is the categorical label x; k = "res" is the *)
(* residual of column c at row r after regressing on the design x.         *)
(* Numbers themselves are not computed: the least-squares routine lives in *)
(* scona.stats_functions, outside the modelled files.                      *)
(*                                                                         *)
(* numpy semantics assumed (the numpy 1.x line the code was written for):  *)
(* bool() of an empty array is False, of a one-element array is bool() of  *)
(* the element, of a longer array raises ValueError.                       *)
(***************************************************************************)
EXTENDS Integers, Sequences, FiniteSets, TLC

VARIABLES df,    \* the caller's dataset (a mutable DataFrame object)
          fs,    \* the file system below the working directory
          pc,    \* position of the running end-to-end pipeline, or "idle"
          run,   \* the running pipeline's locals
          last   \* the most recent completed call: arguments, pre-state, outcome

vars == <<df, fs, pc, run, last>>

-----------------------------------------------------------------------------
(* Bounds *)

MaxRows == 2
MaxDepth == 2

-----------------------------------------------------------------------------
(* Generic helpers *)

Range(s) == {s[i] : i \in DOMAIN s}

RECURSIVE Join(_, _)
\* sep.join(seq) for a sequence of strings
Join(seq, sep) ==
    IF Len(seq) = 0 THEN ""
    ELSE IF Len(seq) = 1 THEN seq[1]
    ELSE seq[1] \o sep \o Join(Tail(seq), sep)

\* Sequences without repetition over S, of length lo..hi
SeqsNoRep(S, lo, hi) ==
    UNION {{s \in [1..n -> S] : \A i, j \in 1..n : i # j => s[i] # s[j]} : n \in lo..hi}

\* A Python optional list argument: None, or a list
PyNone == [isNone |-> TRUE, list |-> <<>>]
PyList(l) == [isNone |-> FALSE, list |-> l]

NoError == [type |-> "none", at |-> "", msg |-> ""]
Error(t, at, msg) == [type |-> t, at |-> at, msg |-> msg]

-----------------------------------------------------------------------------
(* DataFrames *)

EmptyFrame == [columns |-> <<>>, index |-> <<>>, dtype |-> <<>>, data |-> <<>>]

\* df[cols] / df.loc[:, cols]: the named columns, all rows, same row order
SelectColumns(d, cols) ==
    [columns |-> cols,
     index   |-> d.index,
     dtype   |-> [c \in Range(cols) |-> d.dtype[c]],
     data    |-> [c \in Range(cols) |-> d.data[c]]]

\* df[c] = values (positional): replaces column c, or appends it at the end
SetColumn(d, c, dt, vals) ==
    [columns |-> IF c \in Range(d.columns) THEN d.columns ELSE Append(d.columns, c),
     index   |-> d.index,
     dtype   |-> [k \in Range(d.columns) \cup {c} |-> IF k = c THEN dt ELSE d.dtype[k]],
     data    |-> [k \in Range(d.columns) \cup {c} |->
                    IF k = c THEN [r \in Range(d.index) |->
                                     vals[CHOOSE i \in DOMAIN d.index : d.index[i] = r]]
                    ELSE d.data[k]]]

\* df.loc[mask, :]: the rows whose label is in keep, in the frame's row order
SelectRows(d, keep) ==
    LET idx == SelectSeq(d.index, LAMBDA r : r \in keep)
    IN [columns |-> d.columns,
        index   |-> idx,
        dtype   |-> d.dtype,
        data    |-> [c \in Range(d.columns) |-> [r \in Range(idx) |-> d.data[c][r]]]]

\* df.loc[:, c].values: the column as an array, in row order
ColumnValues(d, c) == [i \in DOMAIN d.index |-> d.data[c][d.index[i]]]

Raw(c, r) == [k |-> "raw", c |-> c, r |-> r, x |-> ""]
Lab(v) == [k |-> "lab", c |-> "", r |-> 0, x |-> v]
Res(c, r, x) == [k |-> "res", c |-> c, r |-> r, x |-> x]

-----------------------------------------------------------------------------
(* get_non_numeric_cols and the truth value of its result *)

get_non_numeric_cols(d) == SelectSeq(d.columns, LAMBDA c : d.dtype[c] # "num")

\* bool(array) as `if non_numeric_cols:` evaluates it
ArrayTruth(arr) ==
    IF Len(arr) > 1 THEN "ValueError"
    ELSE IF Len(arr) = 1 /\ arr[1] # "" THEN "True"
    ELSE "False"

NonNumericMessage(cols) ==
    "DataFrame columns " \o Join(cols, ", ") \o " are non numeric"

AmbiguousMessage ==
    "The truth value of an array with more than one element is ambiguous"

-----------------------------------------------------------------------------
(* Residuals *)

\* The covariates array x built from df and covars
DesignMatrix(d, covars) ==
    IF Len(covars) > 1
    THEN [numeric |-> \A c \in Range(covars) : d.dtype[c] = "num",
          tag |-> Join(covars, "+")]
    ELSE IF Len(covars) = 1
    THEN [numeric |-> d.dtype[covars[1]] = "num", tag |-> covars[1]]
    ELSE [numeric |-> d.dtype[d.columns[1]] = "num", tag |-> "ones"]

\* residuals(x.T, df.loc[:, name]): one residual per row, in row order; the
\* least-squares solve rejects operands that are not numeric
residuals(x, d, name) ==
    IF ~x.numeric \/ d.dtype[name] # "num"
    THEN [err |-> Error("TypeError", "residuals", "lstsq: operands are not numeric"),
          val |-> <<>>]
    ELSE [err |-> NoError,
          val |-> [i \in DOMAIN d.index |-> Res(name, d.index[i], x.tag)]]

RECURSIVE ResidualsLoop(_, _, _, _)
\* for name in names: df_res.loc[:, name] = residuals(x.T, df.loc[:, name])
ResidualsLoop(d, df_res, x, names) ==
    IF Len(names) = 0 THEN [err |-> NoError, frame |-> df_res]
    ELSE LET r == residuals(x, d, names[1])
         IN IF r.err.type # "none" THEN [err |-> r.err, frame |-> df_res]
            ELSE ResidualsLoop(d, SetColumn(df_res, names[1], "num", r.val),
                               x, Tail(names))

\* Variant: the residuals are written into the caller's own frame (df_res = df)
AliasFrame(f) == [frame |-> f, alias |-> TRUE]

\* .copy(): the frame the residuals are written into is a new object
NewFrame(f) == [frame |-> f, alias |-> FALSE]

\* What a call leaves in the caller's frame when it wrote into `target`
CallerFrame(d, target, written) ==
    IF target.alias
    THEN [d EXCEPT !.dtype = [c \in DOMAIN d.dtype |->
                                IF c \in DOMAIN written.dtype THEN written.dtype[c]
                                ELSE d.dtype[c]],
                   !.data = [c \in DOMAIN d.data |->
                                IF c \in DOMAIN written.data THEN written.data[c]
                                ELSE d.data[c]]]
    ELSE d

\* scona.make_corr_matrices.create_residuals_df(df, names, covars)
\* Result: the caller's objects after the call, the returned frame, the error.
create_residuals_df(d, names, covars) ==
    IF covars.isNone
    THEN [df |-> d, names |-> names, covars |-> covars, ret |-> EmptyFrame,
          err |-> Error("TypeError", "concat",
                        "can only concatenate list (not NoneType) to list")]
    ELSE
    LET non_numeric_cols == get_non_numeric_cols(SelectColumns(d, names \o covars.list))
        truth == ArrayTruth(non_numeric_cols)
    IN IF truth = "ValueError"
       THEN [df |-> d, names |-> names, covars |-> covars, ret |-> EmptyFrame,
             err |-> Error("ValueError", "validation", AmbiguousMessage)]
       ELSE IF truth = "True"
       THEN [df |-> d, names |-> names, covars |-> covars, ret |-> EmptyFrame,
             err |-> Error("TypeError", "validation",
                           NonNumericMessage(non_numeric_cols))]
       ELSE LET df_res == NewFrame(SelectColumns(d, names))
                x == DesignMatrix(d, covars.list)
                loop == ResidualsLoop(d, df_res.frame, x, names)
            IN [df |-> CallerFrame(d, df_res, loop.frame),
                names |-> names, covars |-> covars,
                ret |-> IF loop.err.type = "none" THEN loop.frame ELSE EmptyFrame,
                err |-> loop.err]

\* BrainNetworksInPython/scripts/make_corr_matrices.create_residuals_df
legacy_create_residuals_df(d, names, covars_list) ==
    LET df_res == NewFrame(d)
        x == DesignMatrix(d, covars_list)
        loop == ResidualsLoop(d, df_res.frame, x, names)
    IN [df |-> CallerFrame(d, df_res, loop.frame),
        names |-> names, covars |-> PyList(covars_list),
        ret |-> IF loop.err.type = "none" THEN loop.frame ELSE EmptyFrame,
        err |-> loop.err]

-----------------------------------------------------------------------------
(* Correlation matrices *)

\* Correlation coefficients are fixed-point numbers in units of 1e-5
One == 100000

\* Off-diagonal coefficients pandas.DataFrame.corr may return
CorrValues == {-50000, 50000}

\* df.corr(method): square, indexed by the frame's columns in order. The
\* coefficient of two different columns depends on the data: r stands for it.
Corr(d, method, r) ==
    [names  |-> d.columns,
     method |-> method,
     values |-> [i \in DOMAIN d.columns |-> [j \in DOMAIN d.columns |->
                    IF d.columns[i] = d.columns[j] THEN One ELSE r]]]

EmptyMatrix == [names |-> <<>>, method |-> "", values |-> <<>>]

\* scona.make_corr_matrices.create_corrmat(df_res, names, method)
create_corrmat(df_res, names, method, r) ==
    LET names1 == IF names.isNone THEN df_res.columns ELSE names.list
        non_numeric_cols == get_non_numeric_cols(df_res)
        truth == ArrayTruth(non_numeric_cols)
    IN IF truth = "ValueError"
       THEN [ret |-> EmptyMatrix,
             err |-> Error("ValueError", "validation", AmbiguousMessage)]
       ELSE IF truth = "True"
       THEN [ret |-> EmptyMatrix,
             err |-> Error("TypeError", "validation",
                           NonNumericMessage(non_numeric_cols))]
       ELSE [ret |-> Corr(SelectColumns(df_res, names1), method, r),
             err |-> NoError]

\* BrainNetworksInPython/scripts/make_corr_matrices.create_corrmat
legacy_create_corrmat(df_residuals, names, method, r) ==
    [ret |-> Corr(SelectColumns(df_residuals, names), method, r), err |-> NoError]

\* scona.make_corr_matrices.corrmat_from_regionalmeasures
\* Returns M = create_corrmat(...).values
corrmat_from_regionalmeasures(regional_measures, names, covars, method, r) ==
    LET res == create_residuals_df(regional_measures, names, covars)
    IN IF res.err.type # "none"
       THEN [df |-> res.df, ret |-> <<>>, err |-> res.err]
       ELSE LET m == create_corrmat(res.ret, PyList(names), method, r)
            IN [df |-> res.df, ret |-> m.ret.values, err |-> m.err]

-----------------------------------------------------------------------------
(* split_groups *)

\* Variant: values drawn with replacement (every row gets the first draw)
Resampled(values, perm) == [i \in DOMAIN values |-> values[perm[1]]]

\* np.random.permutation(values): the values reordered by the permutation
\* the random source picks
Permutation(values, perm) == [i \in DOMAIN values |-> values[perm[i]]]

\* '{}_{}'.format(group_var, value), for a label value
GroupKey(group_var, value) == group_var \o "_" \o value.x

\* Variant: the mask is inverted (df[group_var] != value)
RowsNotEqual(d, group_var, value) ==
    {r \in Range(d.index) : d.data[group_var][r] # value}

\* df[group_var] == value: the labels of the rows where it holds
RowsEqual(d, group_var, value) ==
    {r \in Range(d.index) : d.data[group_var][r] = value}

\* df.drop(columns=cols): a new frame without the columns
DropColumns(d, cols) ==
    LET keep == SelectSeq(d.columns, LAMBDA c : c \notin cols)
    IN SelectColumns(d, keep)

\* scona.make_corr_matrices.split_groups(df, group_var, shuffle)
\* perm is the permutation drawn from the process-wide random source.
\* Result: the caller's frame after the call and the returned dictionary.
split_groups(d, group_var, shuffle, perm) ==
    LET group_rand == group_var \o "_rand"
        d1 == IF shuffle
              THEN SetColumn(d, group_rand, d.dtype[group_var],
                             Permutation(ColumnValues(d, group_var), perm))
              ELSE d
        gv == IF shuffle THEN group_rand ELSE group_var
        values == {d1.data[gv][r] : r \in Range(d1.index)}
        keys == {GroupKey(gv, v) : v \in values}
        split_dict == [k \in keys |->
                         SelectRows(d1, RowsEqual(d1, gv,
                             CHOOSE v \in values : GroupKey(gv, v) = k))]
        \* the frame df.drop returns; the call's result is not bound to a name
        dropped == IF shuffle THEN DropColumns(d1, {group_rand}) ELSE d1
    IN [df |-> d1, ret |-> split_dict, err |-> NoError]

-----------------------------------------------------------------------------
(* The file system and save_mat *)

\* A path is the sequence of its components, relative to the working
\* directory; <<>> is the empty string ''.  fs.dirs is the set of existing
\* directories, fs.files maps each existing regular file to its lines.

\* os.path.dirname(name)
dirname(name) == SubSeq(name, 1, Len(name) - 1)

\* os.path.isdir(p); os.path.isdir('') is False
isdir(f, p) == p # <<>> /\ p \in f.dirs

isfile(f, p) == p \in DOMAIN f.files

\* p and its ancestors below the working directory
Prefixes(p) == {SubSeq(p, 1, k) : k \in 1..Len(p)}

\* os.makedirs(p)
makedirs(f, p) ==
    IF p = <<>>
    THEN [fs |-> f, err |-> Error("FileNotFoundError", "makedirs", "")]
    ELSE IF \E q \in Prefixes(p) \ {p} : isfile(f, q)
    THEN [fs |-> f, err |-> Error("NotADirectoryError", "makedirs", Join(p, "/"))]
    ELSE IF isfile(f, p) \/ p \in f.dirs
    THEN [fs |-> f, err |-> Error("FileExistsError", "makedirs", Join(p, "/"))]
    ELSE [fs |-> [f EXCEPT !.dirs = @ \cup Prefixes(p)], err |-> NoError]

\* The decimal digits of n, left-padded with zeros to width w
ZeroPad(n, w) ==
    LET RECURSIVE Pad(_, _)
        Pad(m, k) == IF k = 0 THEN ""
                     ELSE Pad(m \div 10, k - 1) \o ToString(m % 10)
    IN Pad(n, w)

\* '%.5f' % v for a fixed-point number v (units of 1e-5)
Fmt5(v) ==
    LET a == IF v < 0 THEN -v ELSE v
    IN (IF v < 0 THEN "-" ELSE "") \o ToString(a \div One) \o "." \o ZeroPad(a % One, 5)

\* One line of np.savetxt(fmt='%.5f', delimiter='\t')
MatrixLine(row) == Join([j \in DOMAIN row |-> Fmt5(row[j])], "\t")

\* np.savetxt(name, M, ...): (over)writes the file, one line per row
savetxt(f, name, M) ==
    IF name \in f.dirs
    THEN [fs |-> f, err |-> Error("IsADirectoryError", "savetxt", Join(name, "/"))]
    ELSE IF \E q \in Prefixes(dirname(name)) : isfile(f, q)
    THEN [fs |-> f, err |-> Error("NotADirectoryError", "savetxt", Join(name, "/"))]
    ELSE IF dirname(name) # <<>> /\ dirname(name) \notin f.dirs
    THEN [fs |-> f, err |-> Error("FileNotFoundError", "savetxt", Join(name, "/"))]
    ELSE [fs |-> [f EXCEPT !.files =
                    [q \in DOMAIN f.files \cup {name} |->
                       IF q = name THEN [i \in DOMAIN M |-> MatrixLine(M[i])]
                       ELSE f.files[q]]],
          err |-> NoError]

\* save_mat(M, name), in both libraries
save_mat(f, M, name) ==
    LET dir == dirname(name)
        made == IF ~isdir(f, dir) THEN makedirs(f, dir) ELSE [fs |-> f, err |-> NoError]
    IN IF made.err.type # "none" THEN made ELSE savetxt(made.fs, name, M)

-----------------------------------------------------------------------------
(* The datasets and argument lists the calls are tried on *)

Columns == <<"id", "a", "b", "age", "sex", "grp">>
GroupVars == {"grp"}
GroupValues == {"HC", "SZ"}
Dtypes == {"num", "obj"}

\* One dataset per row count, per dtype of every measured column and per
\* assignment of group labels to rows; the group column holds string labels.
Dataset(t, g) ==
    [columns |-> Columns,
     index   |-> [i \in DOMAIN g |-> i],
     dtype   |-> [c \in Range(Columns) |-> IF c \in GroupVars THEN "obj" ELSE t[c]],
     data    |-> [c \in Range(Columns) |-> [r \in DOMAIN g |->
                    IF c \in GroupVars THEN Lab(g[r]) ELSE Raw(c, r)]]]

Datasets ==
    {Dataset(t, g) : t \in [Range(Columns) \ GroupVars -> Dtypes],
                     g \in UNION {[1..m -> GroupValues] : m \in 1..MaxRows}}

\* The datasets the pipeline is run on: every dtype pattern, one group
DatasetsOneGroup ==
    {Dataset(t, [i \in 1..MaxRows |-> "HC"]) : t \in [Range(Columns) \ GroupVars -> Dtypes]}

NameLists == SeqsNoRep({"a", "b"}, 1, 2)
CovarLists == SeqsNoRep({"age", "sex"}, 0, 2)
CorrmatFrames == {<<"a", "b">>, <<"id", "a", "b">>, <<"id", "a", "b", "age">>}
Methods == {"pearson"}

EmptyFs == [dirs |-> {}, files |-> <<>>]

\* Destinations: m.txt in the working directory and in d1, d1/d2, ...; and the
\* directory names themselves used as file names
DirChain(k) == [i \in 1..k |-> "d" \o ToString(i)]
Destinations ==
    {DirChain(k) \o <<"m.txt">> : k \in 0..MaxDepth} \cup {DirChain(k) : k \in 1..MaxDepth}

Matrices == {<<<<One>>>>, <<<<One, 50000>>, <<50000, One>>>>}
Libraries == {"scona", "scripts"}

NoRun == [lib |-> ""]
NoCall == [op |-> "none"]

-----------------------------------------------------------------------------
(* Calls on the caller's dataset *)

CallCreateResidualsDf ==
    /\ pc = "idle"
    /\ last.op = "none"
    /\ \E names \in NameLists, covars \in CovarLists :
        LET out == create_residuals_df(df, names, PyList(covars))
        IN /\ df' = out.df
           /\ last' = [op |-> "create_residuals_df", pre |-> df,
                       names |-> names, covars |-> PyList(covars), out |-> out]
           /\ UNCHANGED <<fs, pc, run>>

CallLegacyCreateResidualsDf ==
    /\ pc = "idle"
    /\ last.op = "none"
    /\ \E names \in NameLists, covars \in CovarLists :
        LET out == legacy_create_residuals_df(df, names, covars)
        IN /\ df' = out.df
           /\ last' = [op |-> "legacy_create_residuals_df", pre |-> df,
                       names |-> names, covars |-> PyList(covars), out |-> out]
           /\ UNCHANGED <<fs, pc, run>>

CallCreateCorrmat ==
    /\ pc = "idle"
    /\ last.op = "none"
    /\ \E cols \in CorrmatFrames, names \in {PyNone} \cup {PyList(l) : l \in NameLists},
       method \in Methods, r \in CorrValues :
        LET df_res == SelectColumns(df, cols)
            out == create_corrmat(df_res, names, method, r)
        IN /\ last' = [op |-> "create_corrmat", pre |-> df, df_res |-> df_res,
                       names |-> names, out |-> out]
           /\ UNCHANGED <<df, fs, pc, run>>

CallCorrmatFromRegionalmeasures ==
    /\ pc = "idle"
    /\ last.op = "none"
    /\ \E names \in NameLists, covars \in {PyNone} \cup {PyList(l) : l \in CovarLists},
       method \in Methods, r \in CorrValues :
        LET out == corrmat_from_regionalmeasures(df, names, covars, method, r)
        IN /\ df' = out.df
           /\ last' = [op |-> "corrmat_from_regionalmeasures", pre |-> df,
                       names |-> names, covars |-> covars, method |-> method,
                       r |-> r, out |-> out]
           /\ UNCHANGED <<fs, pc, run>>

CallSplitGroups ==
    /\ pc = "idle"
    /\ last.op = "none"
    /\ \E group_var \in GroupVars, shuffle \in BOOLEAN,
       perm \in Permutations(1..Len(df.index)) :
        LET out == split_groups(df, group_var, shuffle, perm)
        IN /\ df' = out.df
           /\ last' = [op |-> "split_groups", pre |-> df, group_var |-> group_var,
                       shuffle |-> shuffle, out |-> out]
           /\ UNCHANGED <<fs, pc, run>>

\* The caller drops the value the last call returned; the next call starts
\* from there (execution is single-threaded, one call at a time)
Discard ==
    /\ pc = "idle"
    /\ last.op # "none"
    /\ last' = NoCall
    /\ UNCHANGED <<df, fs, pc, run>>

-----------------------------------------------------------------------------
(* save_mat, and the end-to-end pipeline of the wrapper *)

CallSaveMat ==
    /\ pc = "idle"
    /\ last.op = "none"
    /\ \E M \in Matrices, name \in Destinations :
        LET out == save_mat(fs, M, name)
        IN /\ fs' = out.fs
           /\ last' = [op |-> "save_mat", pre_fs |-> fs, M |-> M, name |-> name,
                       err |-> out.err]
           /\ UNCHANGED <<df, pc, run>>

\* wrapper line 108 (scripts library) / scona line 210: correct for covariates
PipelineResiduals ==
    /\ pc = "idle"
    /\ last.op = "none"
    /\ \E lib \in Libraries, names \in NameLists, covars \in CovarLists,
          output_name \in Destinations :
        LET out == IF lib = "scona"
                   THEN create_residuals_df(df, names, PyList(covars))
                   ELSE legacy_create_residuals_df(df, names, covars)
            ctx == [lib |-> lib, names |-> names, covars |-> covars,
                    output_name |-> output_name, pre |-> df, pre_fs |-> fs]
        IN /\ df' = out.df
           /\ IF out.err.type # "none"
              THEN /\ pc' = "idle"
                   /\ run' = NoRun
                   /\ last' = [op |-> "pipeline", ctx |-> ctx, failed |-> "residuals",
                               err |-> out.err]
              ELSE /\ pc' = "corrmat"
                   /\ run' = [ctx |-> ctx, df_res |-> out.ret]
                   /\ last' = last
           /\ UNCHANGED fs

\* wrapper line 111 / scona line 213: make the correlation matrix
PipelineCorrmat ==
    /\ pc = "corrmat"
    /\ \E method \in Methods, r \in CorrValues :
        LET out == IF run.ctx.lib = "scona"
                   THEN create_corrmat(run.df_res, PyList(run.ctx.names), method, r)
                   ELSE legacy_create_corrmat(run.df_res, run.ctx.names, method, r)
        IN IF out.err.type # "none"
           THEN /\ pc' = "idle"
                /\ run' = NoRun
                /\ last' = [op |-> "pipeline", ctx |-> run.ctx, failed |-> "corrmat",
                            err |-> out.err]
           ELSE /\ pc' = "save"
                /\ run' = [ctx |-> run.ctx, M |-> out.ret.values]
                /\ last' = last
    /\ UNCHANGED <<df, fs>>

\* wrapper line 114: save the matrix
PipelineSave ==
    /\ pc = "save"
    /\ LET out == save_mat(fs, run.M, run.ctx.output_name)
       IN /\ fs' = out.fs
          /\ last' = [op |-> "pipeline", ctx |-> run.ctx,
                      failed |-> IF out.err.type # "none" THEN "save" ELSE "",
                      err |-> out.err]
    /\ pc' = "idle"
    /\ run' = NoRun
    /\ UNCHANGED df

-----------------------------------------------------------------------------
(* Specifications *)

\* Calls of the library functions on a dataset
Init ==
    /\ df \in Datasets
    /\ fs = EmptyFs
    /\ pc = "idle"
    /\ run = NoRun
    /\ last = NoCall

Next ==
    \/ CallCreateResidualsDf
    \/ CallLegacyCreateResidualsDf
    \/ CallCreateCorrmat
    \/ CallCorrmatFromRegionalmeasures
    \/ CallSplitGroups
    \/ Discard

Spec == Init /\ [][Next]_vars

\* Saving matrices and running the pipeline against a file system
InitFs ==
    /\ df \in DatasetsOneGroup
    /\ fs = EmptyFs
    /\ pc = "idle"
    /\ run = NoRun
    /\ last = NoCall

NextFs ==
    \/ CallSaveMat
    \/ PipelineResiduals
    \/ PipelineCorrmat
    \/ PipelineSave
    \/ Discard

SpecFs == InitFs /\ [][NextFs]_vars

-----------------------------------------------------------------------------
(* Properties *)

\* The requested columns of d that are not numeric
NonNumericRequested(d, names, covars) ==
    {c \in Range(names) \cup Range(covars) : d.dtype[c] # "num"}

\* The orderings of a finite set of names
Orderings(S) == SeqsNoRep(S, Cardinality(S), Cardinality(S))

\* C1: create_residuals_df fails with a TypeError whose message lists all the
\* non-numeric requested columns joined by ', ', before any residual is
\* computed, whenever some requested column (0, 1 or several may be) is
\* non-numeric; and raises no validation error when none is.
C1_TypeErrorListsOffenders ==
    last.op = "create_residuals_df" =>
        LET bad == NonNumericRequested(last.pre, last.names, last.covars.list)
        IN IF bad # {}
           THEN /\ last.out.err.type = "TypeError"
                /\ \E s \in Orderings(bad) :
                      last.out.err.msg = "DataFrame columns " \o Join(s, ", ")
                                             \o " are non numeric"
                /\ last.out.ret = EmptyFrame
           ELSE last.out.err.at # "validation"

\* What the validation of create_residuals_df does: nothing for no offender,
\* the TypeError naming it for one, ValueError for several.
ValidationOutcome ==
    last.op = "create_residuals_df" =>
        LET bad == get_non_numeric_cols(SelectColumns(last.pre,
                                                      last.names \o last.covars.list))
        IN /\ Len(bad) = 0 => last.out.err.at # "validation"
           /\ Len(bad) = 1 => /\ last.out.err.type = "TypeError"
                              /\ last.out.err.msg = NonNumericMessage(bad)
           /\ Len(bad) > 1 => last.out.err.type = "ValueError"

\* C2: with all requested columns numeric, create_residuals_df (either
\* library's) returns a frame with the input's rows in the input's order
\* whose column set is exactly the region names.
C2_ResidualsFrameShape ==
    last.op \in {"create_residuals_df", "legacy_create_residuals_df"} =>
        (NonNumericRequested(last.pre, last.names, last.covars.list) = {} =>
            /\ last.out.err.type = "none"
            /\ last.out.ret.index = last.pre.index
            /\ Range(last.out.ret.columns) = Range(last.names))

\* C3: create_corrmat raises TypeError exactly when one of the selected
\* columns (names, or all columns when names is omitted) is non-numeric; a
\* non-numeric column outside the selection does not make the call fail.
C3_CorrmatChecksSelection ==
    last.op = "create_corrmat" =>
        LET selected == IF last.names.isNone THEN last.df_res.columns
                        ELSE last.names.list
            bad == {c \in Range(selected) : last.df_res.dtype[c] # "num"}
        IN /\ bad # {} => last.out.err.type = "TypeError"
           /\ bad = {} => last.out.err.type = "none"

\* C4: after split_groups returns, shuffled or not, the caller's dataset has
\* the columns it had before the first call: "<group_variable>_rand" is gone.
C4_CallerColumnsRestored ==
    last.op = "split_groups" =>
        /\ Range(df.columns) = Range(Columns)
        /\ (last.group_var \o "_rand") \notin Range(df.columns)

InputValidityError(e) == e.type = "TypeError"

\* C7: in the end-to-end pipeline the matrix is written only after residual
\* correction and correlation both completed without error; when a requested
\* region or covariate column is non-numeric the input-validity error is
\* raised and the files and directories are left exactly as they were.
C7_InvalidInputNoWrite ==
    last.op = "pipeline" =>
        /\ (fs # last.ctx.pre_fs => last.failed \notin {"residuals", "corrmat"})
        /\ (NonNumericRequested(last.ctx.pre, last.ctx.names, last.ctx.covars) # {} =>
               /\ InputValidityError(last.err)
               /\ fs = last.ctx.pre_fs)

\* What the pipelines do guarantee: a run that failed in residual correction
\* or in correlation, and any run on a non-numeric requested column, raised
\* an error and changed nothing on disk.
PipelineNoWriteOnError ==
    last.op = "pipeline" =>
        /\ (last.failed \in {"residuals", "corrmat"} => fs = last.ctx.pre_fs)
        /\ (NonNumericRequested(last.ctx.pre, last.ctx.names, last.ctx.covars) # {} =>
               /\ last.err.type # "none"
               /\ last.failed = "residuals"
               /\ fs = last.ctx.pre_fs)

\* The directories never shrink, whatever the step
DirectoriesKept == [][fs.dirs \subseteq fs'.dirs]_vars

\* The location of a destination is writable: no regular file stands where a
\* directory of the path is needed, and the destination is not a directory
Writable(f, name) ==
    /\ name \notin f.dirs
    /\ \A q \in Prefixes(dirname(name)) : ~isfile(f, q)

\* C8: for every destination and every prior file-system state with a
\* writable location, save_mat ends with the destination's parent directory
\* (and all its ancestors) existing, the destination file holding one line per
\* matrix row, and every directory that existed before still existing.
C8_SaveMatEnsuresParent ==
    (last.op = "save_mat" /\ Writable(last.pre_fs, last.name)) =>
        /\ last.err.type = "none"
        /\ Prefixes(dirname(last.name)) \subseteq fs.dirs
        /\ last.name \in DOMAIN fs.files
        /\ Len(fs.files[last.name]) = Len(last.M)
        /\ last.pre_fs.dirs \subseteq fs.dirs

\* What save_mat does guarantee: the same, for destinations that have a
\* directory part.
SaveMatWithDirectoryPart ==
    (last.op = "save_mat" /\ Writable(last.pre_fs, last.name) /\ Len(last.name) > 1) =>
        /\ last.err.type = "none"
        /\ Prefixes(dirname(last.name)) \subseteq fs.dirs
        /\ fs.files[last.name] = [i \in DOMAIN last.M |-> MatrixLine(last.M[i])]
        /\ last.pre_fs.dirs \subseteq fs.dirs
        /\ \A q \in DOMAIN last.pre_fs.files \ {last.name} :
              q \in DOMAIN fs.files /\ fs.files[q] = last.pre_fs.files[q]

\* C9: create_residuals_df leaves its input as it was, whether it returns or
\* raises: every column of the caller's dataset keeps its values, and the
\* caller's names and covars lists are unchanged.
C9_InputUntouched ==
    last.op = "create_residuals_df" =>
        /\ df = last.pre
        /\ last.out.names = last.names
        /\ last.out.covars = last.covars

C9_Witness ==
    /\ last.op = "create_residuals_df"
    /\ last.out.err.type = "none"
    /\ \E c \in Range(last.names), r \in Range(df.index) :
          /\ last.out.ret.data[c][r].k = "res"
          /\ df.data[c][r].k = "raw"

\* C10: corrmat_from_regionalmeasures called without covars (None) on a
\* numeric dataset does the zero-covariate correction and returns the matrix:
\* the outcome of the call with covars=[]; it does not fail.
C10_CovarsOptional ==
    (/\ last.op = "corrmat_from_regionalmeasures"
     /\ last.covars.isNone
     /\ \A c \in Range(Columns) \ GroupVars : last.pre.dtype[c] = "num") =>
        LET same == corrmat_from_regionalmeasures(last.pre, last.names, PyList(<<>>),
                                                  last.method, last.r)
        IN /\ last.out.err.type = "none"
           /\ last.out.ret = same.ret
           /\ Len(last.out.ret) = Len(last.names)

====
